---------------------------- MODULE Spec2Model ----------------------------
(***************************************************************************)
(* ClaimGenie: the chat backend's session state machine                    *)
(* (src/claim-genie-api/server.js, the server that starts at line 124).    *)
(*                                                                         *)
(* One turn is one call of handleMessage(session, msg).  The language      *)
(* model is an oracle: each call either throws, or returns a message whose *)
(* content does not parse, or returns a JSON object over the eight claim   *)
(* keys.  policies.json and claims.json are the policy directory and the   *)
(* claim store.  Of the keys the oracle's object may carry beyond the      *)
(* eight, claimId is modelled.                                             *)
(*                                                                         *)
(* Spec runs the turns one after the other, and every write of claims.json *)
(* succeeds.  SpecConc lets the completing turns of two sessions overlap   *)
(* at their reads and writes of claims.json.  SpecWrite is Spec with       *)
(* writes of claims.json that may fail.                                    *)
(*                                                                         *)
(* JavaScript strings are sequences of one-character strings, so that      *)
(* trim, toUpperCase, toLowerCase, startsWith and the regular expressions  *)
(* are computed and not assumed.                                           *)
(***************************************************************************)
EXTENDS Integers, Sequences, FiniteSets, TLC

(***************************************************************************)
(* Bounds of the model.                                                    *)
(***************************************************************************)
\* Claim records the store may hold when turns run one after the other; a
\* completing turn is not taken beyond.
MaxClaims == 1
\* Claim records, stored or on their way to the store, when turns overlap.
MaxConcClaims == 2
\* Clock ticks per calendar day (tick 0 of a day is local midnight).
TicksPerDay == 2
\* The server may start this many ticks after local midnight, at the latest.
MaxTicks == 1

(***************************************************************************)
(* JavaScript values that a claim field, a policy attribute or a session   *)
(* field can hold.                                                         *)
(***************************************************************************)
Undefined == [type |-> "undefined", str |-> <<>>, num |-> 0]
Null == [type |-> "null", str |-> <<>>, num |-> 0]
Str(s) == [type |-> "string", str |-> s, num |-> 0]
Num(n) == [type |-> "number", str |-> <<>>, num |-> n]

\* ToBoolean(v): what `!v` negates.
Truthy(v) ==
  CASE v.type = "string" -> v.str # <<>>
    [] v.type = "number" -> v.num # 0
    [] OTHER -> FALSE

\* v !== undefined && v !== null
NotNullish(v) == v.type \notin {"undefined", "null"}

(***************************************************************************)
(* String primitives.                                                      *)
(***************************************************************************)
UpperOf ==
  [c \in {"a","b","c","d","e","f","g","h","i","j","k","l","m","n","o","p",
          "q","r","s","t","u","v","w","x","y","z"} |->
     CASE c = "a" -> "A" [] c = "b" -> "B" [] c = "c" -> "C" [] c = "d" -> "D"
       [] c = "e" -> "E" [] c = "f" -> "F" [] c = "g" -> "G" [] c = "h" -> "H"
       [] c = "i" -> "I" [] c = "j" -> "J" [] c = "k" -> "K" [] c = "l" -> "L"
       [] c = "m" -> "M" [] c = "n" -> "N" [] c = "o" -> "O" [] c = "p" -> "P"
       [] c = "q" -> "Q" [] c = "r" -> "R" [] c = "s" -> "S" [] c = "t" -> "T"
       [] c = "u" -> "U" [] c = "v" -> "V" [] c = "w" -> "W" [] c = "x" -> "X"
       [] c = "y" -> "Y" [] c = "z" -> "Z"]

LowerLetters == DOMAIN UpperOf
UpperLetters == {UpperOf[c] : c \in LowerLetters}

UpperChar(c) == IF c \in LowerLetters THEN UpperOf[c] ELSE c
LowerChar(c) ==
  IF c \in UpperLetters THEN CHOOSE l \in LowerLetters : UpperOf[l] = c ELSE c

toUpperCase(s) == [i \in 1..Len(s) |-> UpperChar(s[i])]
toLowerCase(s) == [i \in 1..Len(s) |-> LowerChar(s[i])]

RECURSIVE trimStart(_)
trimStart(s) ==
  IF s # <<>> /\ Head(s) = " " THEN trimStart(Tail(s)) ELSE s

RECURSIVE trimEnd(_)
trimEnd(s) ==
  IF s # <<>> /\ s[Len(s)] = " " THEN trimEnd(SubSeq(s, 1, Len(s) - 1)) ELSE s

trim(s) == trimEnd(trimStart(s))

startsWith(s, p) == Len(s) >= Len(p) /\ SubSeq(s, 1, Len(p)) = p

\* s contains p as a substring
includes(s, p) ==
  \E i \in 1..(Len(s) - Len(p) + 1) : SubSeq(s, i, i + Len(p) - 1) = p

\* /p/i.test(s), for a pattern p of lower-case letters only
TestIgnoreCase(p, s) == includes(toLowerCase(s), p)

DigitChars == <<"0","1","2","3","4","5","6","7","8","9">>

RECURSIVE NatToChars(_)
NatToChars(n) ==
  IF n < 10 THEN <<DigitChars[n + 1]>>
  ELSE NatToChars(n \div 10) \o <<DigitChars[(n % 10) + 1]>>

IsDigit(c) == \E d \in 1..10 : DigitChars[d] = c
DigitValue(c) == (CHOOSE d \in 1..10 : DigitChars[d] = c) - 1

RECURSIVE CharsToNat(_)
CharsToNat(s) ==
  IF Len(s) = 1 THEN DigitValue(s[1])
  ELSE CharsToNat(SubSeq(s, 1, Len(s) - 1)) * 10 + DigitValue(s[Len(s)])

(***************************************************************************)
(* Time.  A Date is a number of ticks; NaN is the Invalid Date.  A date    *)
(* string is written "@<ticks>" here; every other string is no date.       *)
(***************************************************************************)
NaN == 0 - 1

\* new Date(string).getTime()
ParseDate(s) ==
  IF Len(s) >= 2 /\ s[1] = "@" /\ \A i \in 2..Len(s) : IsDigit(s[i])
  THEN CharsToNat(Tail(s))
  ELSE NaN

\* new Date(v) for a field value v that passed `if (v)`
DateOf(v) ==
  CASE v.type = "string" -> ParseDate(v.str)
    [] v.type = "number" -> v.num
    [] OTHER -> NaN

\* a > b and a < b on Dates: false as soon as one side is NaN
DateGT(a, b) == a # NaN /\ b # NaN /\ a > b
DateLT(a, b) == a # NaN /\ b # NaN /\ a < b

\* now.setHours(0,0,0,0)
setHoursZero(t) == (t \div TicksPerDay) * TicksPerDay

DayOf(t) == t \div TicksPerDay

DateString(t) == Str(<<"@">> \o NatToChars(t))

(***************************************************************************)
(* The claim schema (server.js, GLOBAL CONSTANTS).                         *)
(***************************************************************************)
REQUIRED_FIELDS ==
  << "claimant_name", "policy_number", "claim_type", "incident_date",
     "incident_location", "claim_amount", "service_provider",
     "description_of_loss" >>

Fields == {REQUIRED_FIELDS[i] : i \in 1..Len(REQUIRED_FIELDS)}

FIELD_LABELS ==
  [f \in Fields |->
     CASE f = "claimant_name" -> "Claimant Name"
       [] f = "policy_number" -> "Policy Number"
       [] f = "claim_type" -> "Claim Type"
       [] f = "incident_date" -> "Incident Date"
       [] f = "incident_location" -> "Incident Location"
       [] f = "claim_amount" -> "Claim Amount"
       [] f = "service_provider" -> "Service Provider"
       [] f = "description_of_loss" -> "Description of Loss"]

\* seq.filter(keep), order kept
RECURSIVE Filter(_, _)
Filter(seq, keep) ==
  IF seq = <<>> THEN <<>>
  ELSE IF Head(seq) \in keep THEN <<Head(seq)>> \o Filter(Tail(seq), keep)
  ELSE Filter(Tail(seq), keep)

\* The keys of the objects of the flow: the claim fields, and claimId, which
\* a record of claims.json has and which the oracle's JSON may carry too.
Keys == Fields \cup {"claimId"}

\* An object over these keys; a key the object lacks reads undefined.
EmptyObject == [k \in Keys |-> Undefined]

(***************************************************************************)
(* Clock.  Day 1 is the day of the run; the turns of a run are short       *)
(* against a tick, so the clock reads the same in all of them.             *)
(***************************************************************************)
StartClock == TicksPerDay
LastClock == StartClock + MaxTicks
PastTick == StartClock - TicksPerDay
FutureTick == (DayOf(LastClock) + 1) * TicksPerDay

(***************************************************************************)
(* policies.json, as loadPolicies() returns it: POL2 is in force, POL3 has *)
(* run out, POL4 runs out with the current day, POL1 is no key.            *)
(***************************************************************************)
loadPolicies ==
  [k \in {<<"P","O","L","2">>, <<"P","O","L","3">>, <<"P","O","L","4">>} |->
     CASE k = <<"P","O","L","2">> ->
            [name |-> Str(<<"A","s","h","a">>),
             policyType |-> Str(<<"M","o","t","o","r">>),
             validTill |-> DateString(FutureTick + TicksPerDay)]
       [] k = <<"P","O","L","3">> ->
            [name |-> Str(<<"R","a","j">>),
             policyType |-> Str(<<"H","e","a","l","t","h">>),
             validTill |-> DateString(PastTick)]
       [] k = <<"P","O","L","4">> ->
            [name |-> Str(<<"M","i","a">>),
             policyType |-> Str(<<"H","o","m","e">>),
             validTill |-> DateString(StartClock)]]

(***************************************************************************)
(* The oracle.  A call throws, or answers with content that is no JSON, or *)
(* answers with a JSON object over the claim keys: a complete well-formed  *)
(* answer, or that answer with one key changed (a value left out, a value  *)
(* of the wrong kind, a key the session already knows), or with two.       *)
(***************************************************************************)
GoodAnswer ==
  [f \in Keys |->
     CASE f = "claimant_name" -> Null
       [] f = "policy_number" -> Null
       [] f = "claim_type" -> Str(<<"m","o","t","o","r">>)
       [] f = "incident_date" -> DateString(PastTick)
       [] f = "incident_location" -> Str(<<"P","u","n","e">>)
       [] f = "claim_amount" -> Num(500)
       [] f = "service_provider" -> Str(<<"g","a","r","a","g","e">>)
       [] f = "description_of_loss" -> Str(<<"d","e","n","t">>)
       [] f = "claimId" -> Undefined]

\* What a key of the answer may hold instead.
Deviations ==
  { <<"claim_type", Null>>, <<"incident_date", Null>>,
    <<"incident_location", Null>>, <<"claim_amount", Null>>,
    <<"service_provider", Null>>, <<"description_of_loss", Null>>,
    <<"incident_date", DateString(FutureTick)>>,
    <<"incident_date", DateString(StartClock + 1)>>,
    <<"incident_date", Str(<<"s","o","o","n">>)>>,
    <<"incident_location", Str(<<>>)>>,
    <<"claim_amount", Num(0)>>,
    <<"description_of_loss", Undefined>>,
    <<"claimId", Str(<<"C","L","M","-","1","0","0","1">>)>> }

\* Two keys changed at once: a name and a policy number of the oracle's own,
\* two values left out, and a value left out beside a date of tomorrow or a
\* date of today that carries a time of day.
DoubleDeviations ==
  { { <<"claimant_name", Str(<<"E","v","e">>)>>,
      <<"policy_number", Str(<<"P","O","L","9">>)>> },
    { <<"claim_type", Null>>, <<"claim_amount", Null>> },
    { <<"incident_date", DateString(FutureTick)>>, <<"service_provider", Null>> },
    { <<"incident_date", DateString(StartClock + 1)>>, <<"claim_type", Null>> } }

DeviationSets == {{}} \cup {{d} : d \in Deviations} \cup DoubleDeviations

Deviate(D) ==
  [f \in Keys |->
     IF \E d \in D : d[1] = f
     THEN (CHOOSE d \in D : d[1] = f)[2]
     ELSE GoodAnswer[f]]

Threw == [kind |-> "threw", parsed |-> EmptyObject]
Unparsable == [kind |-> "unparsable", parsed |-> EmptyObject]
Json(obj) == [kind |-> "json", parsed |-> obj]
NoCall == [kind |-> "none", parsed |-> EmptyObject]

OracleAnswers == {Threw, Unparsable} \cup {Json(Deviate(D)) : D \in DeviationSets}

(***************************************************************************)
(* Sessions, the claim store, replies.                                     *)
(***************************************************************************)
newSession ==
  [state |-> "awaiting_policy_number",
   policyNumber |-> Null,
   userDetails |-> Null,
   claimData |-> EmptyObject,
   missingFields |-> <<>>,
   lastClaimId |-> Null]

\* A reply, by what it says: the kind of text, the user input it quotes, the
\* field labels it lists, the object it prints and the claim ID it gives.
Reply(kind) ==
  [kind |-> kind, quoted |-> <<>>, labels |-> <<>>, shown |-> Null,
   claimId |-> Null]

\* missing.map(f => '• ' + FIELD_LABELS[f])
LabelsOf(missing) == [i \in 1..Len(missing) |-> FIELD_LABELS[missing[i]]]

\* `CLM-${1000 + claims.length}`
generateClaimId(claims) ==
  Str(<<"C","L","M","-">> \o NatToChars(1000 + Len(claims)))

\* claims.find(c => c.claimId?.toLowerCase() === id.toLowerCase()) || null
retrieveClaimById(claims, id) ==
  LET hits == {i \in 1..Len(claims) :
                 toLowerCase(claims[i].claimId.str) = toLowerCase(id)}
  IN IF hits = {} THEN Null
     ELSE claims[CHOOSE i \in hits : \A j \in hits : i <= j]

\* A validator that counts only null as missing.
validateClaimJS_NullOnly(data, now) ==
  IF /\ Truthy(data["incident_date"])
     /\ DateGT(DateOf(data["incident_date"]), setHoursZero(now))
  THEN [missing |-> <<"incident_date">>, errorMessage |-> TRUE, cleaned |-> data]
  ELSE [missing |-> Filter(REQUIRED_FIELDS, {f \in Fields : data[f] = Null}),
        errorMessage |-> FALSE,
        cleaned |-> data]

\* A validator without the date check.
validateClaimJS_NoDateCheck(data, now) ==
  [missing |-> Filter(REQUIRED_FIELDS, {f \in Fields : ~Truthy(data[f])}),
   errorMessage |-> FALSE,
   cleaned |-> data]

\* A validator that lists the missing fields last-to-first.
validateClaimJS_Reversed(data, now) ==
  IF /\ Truthy(data["incident_date"])
     /\ DateGT(DateOf(data["incident_date"]), setHoursZero(now))
  THEN [missing |-> <<"incident_date">>, errorMessage |-> TRUE, cleaned |-> data]
  ELSE [missing |->
          LET m == Filter(REQUIRED_FIELDS, {f \in Fields : ~Truthy(data[f])})
          IN [i \in 1..Len(m) |-> m[Len(m) + 1 - i]],
        errorMessage |-> FALSE,
        cleaned |-> data]

validateClaimJS(data, now) ==
  IF /\ Truthy(data["incident_date"])
     /\ DateGT(DateOf(data["incident_date"]), setHoursZero(now))
  THEN [missing |-> <<"incident_date">>, errorMessage |-> TRUE, cleaned |-> data]
  ELSE [missing |-> Filter(REQUIRED_FIELDS, {f \in Fields : ~Truthy(data[f])}),
        errorMessage |-> FALSE,
        cleaned |-> data]

\* `${FIELD_LABELS[f]}: ${data[f] ?? "Not Provided"}` for every required field
formatSummary(data) ==
  [f \in Fields |->
     IF NotNullish(data[f]) THEN data[f]
     ELSE Str(<<"N","o","t"," ","P","r","o","v","i","d","e","d">>)]

\* An extraction whose oracle values override the policy-derived defaults.
extractClaimFlexible_OracleWins(answer, defaults) ==
  IF answer.kind = "threw"
  THEN [f \in Keys |-> IF f \in DOMAIN defaults THEN defaults[f] ELSE Undefined]
  ELSE [f \in Keys |->
          IF answer.kind = "json" /\ NotNullish(answer.parsed[f])
          THEN answer.parsed[f]
          ELSE IF f \in DOMAIN defaults THEN defaults[f]
          ELSE IF f \in Fields THEN Null
          ELSE Undefined]

\* An extraction that has nothing to return when the oracle call throws.
extractClaimFlexible_ThrowLosesDefaults(answer, defaults) ==
  IF answer.kind = "threw"
  THEN EmptyObject
  ELSE [f \in Keys |->
          IF f \in DOMAIN defaults THEN defaults[f]
          ELSE IF answer.kind = "json" /\ answer.parsed[f] # Undefined
          THEN answer.parsed[f]
          ELSE IF f \in Fields THEN Null
          ELSE Undefined]

\* {...nulls, ...(parsed || {}), ...defaults}; on a throw, defaults alone
extractClaimFlexible(answer, defaults) ==
  IF answer.kind = "threw"
  THEN [f \in Keys |-> IF f \in DOMAIN defaults THEN defaults[f] ELSE Undefined]
  ELSE [f \in Keys |->
          IF f \in DOMAIN defaults THEN defaults[f]
          ELSE IF answer.kind = "json" /\ answer.parsed[f] # Undefined
          THEN answer.parsed[f]
          ELSE IF f \in Fields THEN Null
          ELSE Undefined]

\* A gap-fill that spreads the answer over the draft, nulls included.
fillMissingAI_Overlay(current, missing, answer) ==
  IF answer.kind # "json" THEN current
  ELSE [f \in Keys |->
          IF f \in Fields /\ answer.parsed[f] # Undefined
          THEN answer.parsed[f]
          ELSE current[f]]

\* the merge of the gap-fill answer into the current draft
fillMissingAI(current, missing, answer) ==
  IF answer.kind # "json" THEN current
  ELSE [f \in Keys |->
          IF f \in Fields /\ NotNullish(answer.parsed[f])
          THEN answer.parsed[f]
          ELSE current[f]]

(***************************************************************************)
(* handleMessage, branch by branch.  Each branch gives the session, the    *)
(* claim store and the reply the turn ends with.                           *)
(***************************************************************************)
Result(session, claims, reply) ==
  [session |-> session, claims |-> claims, reply |-> reply]

\* The claims.json entry a completing turn pushes:
\* {claimId, ...extracted, createdAt}.  A claimId key of the draft comes after
\* the generated one in the literal and so replaces it.
ClaimRecord(claimId, data, now) ==
  [claimId |-> IF data["claimId"] # Undefined THEN data["claimId"] ELSE claimId,
   data |-> [f \in Fields |-> data[f]],
   createdAt |-> now]

\* A completing turn that leaves the session where it was.
Persist_StaysOpen(session, data, claims, now, kind) ==
  LET claimId == generateClaimId(claims)
  IN Result([session EXCEPT !.lastClaimId = claimId],
            Append(claims, ClaimRecord(claimId, data, now)),
            [Reply(kind) EXCEPT !.shown = formatSummary(data),
                                !.claimId = claimId])

\* generateClaimId, loadClaims, push, saveClaims, state = "done"
Persist(session, data, claims, now, kind) ==
  LET claimId == generateClaimId(claims)
  IN Result([session EXCEPT !.lastClaimId = claimId, !.state = "done"],
            Append(claims, ClaimRecord(claimId, data, now)),
            [Reply(kind) EXCEPT !.shown = formatSummary(data),
                                !.claimId = claimId])

\* A retrieve branch that lets go of the verified policy.
OnRetrieve_Forgets(session, claims) ==
  Result([session EXCEPT !.state = "awaiting_claim_id",
                         !.policyNumber = Null,
                         !.userDetails = Null],
         claims, Reply("enter_claim_id"))

OnRetrieve(session, claims) ==
  Result([session EXCEPT !.state = "awaiting_claim_id"], claims,
         Reply("enter_claim_id"))

\* A restart that clears the session but leaves it in the state it was in.
OnRestart_KeepsState(session, claims) ==
  Result([newSession EXCEPT !.state = session.state], claims, Reply("restarted"))

OnRestart(session, claims) ==
  Result(newSession, claims, Reply("restarted"))

ClaimIdTurn(session, msg, claims) ==
  LET claim == retrieveClaimById(claims, msg)
  IN IF claim = Null
     THEN Result(session, claims, [Reply("no_claim_found") EXCEPT !.quoted = msg])
     ELSE Result(session, claims,
                 [Reply("claim_details") EXCEPT !.shown = claim,
                                                !.claimId = claim.claimId])

\* A policy branch that gives up on an unknown policy number.
PolicyTurn_UnknownEnds(session, msg, claims, now) ==
  LET key == toUpperCase(msg)
      policies == loadPolicies
  IN IF key \notin DOMAIN policies
     THEN Result([session EXCEPT !.state = "done_no_claim"], claims,
                 [Reply("invalid_policy") EXCEPT !.quoted = msg])
     ELSE IF DateLT(DateOf(policies[key].validTill), now)
     THEN Result([session EXCEPT !.state = "done_no_claim"], claims,
                 [Reply("policy_expired") EXCEPT
                    !.quoted = msg, !.shown = policies[key].validTill])
     ELSE Result([session EXCEPT !.policyNumber = Str(key),
                                 !.userDetails = policies[key],
                                 !.state = "confirm_new_claim"],
                 claims,
                 [Reply("policy_details") EXCEPT !.shown = policies[key]])

\* A policy branch without the expiry test.
PolicyTurn_IgnoresExpiry(session, msg, claims, now) ==
  LET key == toUpperCase(msg)
      policies == loadPolicies
  IN IF key \notin DOMAIN policies
     THEN Result(session, claims, [Reply("invalid_policy") EXCEPT !.quoted = msg])
     ELSE Result([session EXCEPT !.policyNumber = Str(key),
                                 !.userDetails = policies[key],
                                 !.state = "confirm_new_claim"],
                 claims,
                 [Reply("policy_details") EXCEPT !.shown = policies[key]])

PolicyTurn(session, msg, claims, now) ==
  LET key == toUpperCase(msg)
      policies == loadPolicies
  IN IF key \notin DOMAIN policies
     THEN Result(session, claims, [Reply("invalid_policy") EXCEPT !.quoted = msg])
     ELSE IF DateLT(DateOf(policies[key].validTill), now)
     THEN Result([session EXCEPT !.state = "done_no_claim"], claims,
                 [Reply("policy_expired") EXCEPT
                    !.quoted = msg, !.shown = policies[key].validTill])
     ELSE Result([session EXCEPT !.policyNumber = Str(key),
                                 !.userDetails = policies[key],
                                 !.state = "confirm_new_claim"],
                 claims,
                 [Reply("policy_details") EXCEPT !.shown = policies[key]])

\* A confirm branch that opens the intake on every answer but a no.
ConfirmTurn_OpensByDefault(session, msg, claims) ==
  IF startsWith(toLowerCase(msg), <<"n">>)
  THEN Result([session EXCEPT !.state = "done_no_claim"], claims,
              Reply("okay_no_claim"))
  ELSE Result([session EXCEPT !.state = "awaiting_claim_details"], claims,
              Reply("provide_claim_details"))

\* A confirm branch that reads the answer in the letter case it was typed in.
ConfirmTurn_CaseSensitive(session, msg, claims) ==
  IF startsWith(msg, <<"y">>)
  THEN Result([session EXCEPT !.state = "awaiting_claim_details"], claims,
              Reply("provide_claim_details"))
  ELSE IF startsWith(msg, <<"n">>)
  THEN Result([session EXCEPT !.state = "done_no_claim"], claims,
              Reply("okay_no_claim"))
  ELSE Result(session, claims, Reply("answer_yes_or_no"))

ConfirmTurn(session, msg, claims) ==
  IF startsWith(toLowerCase(msg), <<"y">>)
  THEN Result([session EXCEPT !.state = "awaiting_claim_details"], claims,
              Reply("provide_claim_details"))
  ELSE IF startsWith(toLowerCase(msg), <<"n">>)
  THEN Result([session EXCEPT !.state = "done_no_claim"], claims,
              Reply("okay_no_claim"))
  ELSE Result(session, claims, Reply("answer_yes_or_no"))

DetailsTurn(session, answer, claims, now) ==
  LET defaults == [claimant_name |-> session.userDetails.name,
                   policy_number |-> session.policyNumber]
      extracted == extractClaimFlexible(answer, defaults)
      validation == validateClaimJS(extracted, now)
      s1 == [session EXCEPT !.claimData = extracted]
  IN IF validation.errorMessage
     THEN Result([s1 EXCEPT !.missingFields = <<"incident_date">>,
                            !.state = "awaiting_missing"],
                 claims, Reply("future_date"))
     ELSE IF validation.missing = <<>>
     THEN Persist([s1 EXCEPT !.missingFields = validation.missing],
                  extracted, claims, now, "claim_recorded")
     ELSE Result([s1 EXCEPT !.missingFields = validation.missing,
                            !.state = "awaiting_missing"],
                 claims,
                 [Reply("still_need") EXCEPT !.labels = LabelsOf(validation.missing)])

\* A gap-fill branch that keeps the list of missing fields it started with
\* when fields are still missing.
MissingTurn_KeepsList(session, answer, claims, now) ==
  LET updated == fillMissingAI(session.claimData, session.missingFields, answer)
      validation == validateClaimJS(updated, now)
      s1 == [session EXCEPT !.claimData = updated]
  IN IF validation.errorMessage
     THEN Result([s1 EXCEPT !.missingFields = <<"incident_date">>],
                 claims, Reply("future_date"))
     ELSE IF validation.missing = <<>>
     THEN Persist([s1 EXCEPT !.missingFields = validation.missing],
                  updated, claims, now, "claim_recorded")
     ELSE Result(s1, claims,
                 [Reply("still_missing") EXCEPT !.labels = LabelsOf(validation.missing)])

MissingTurn(session, answer, claims, now) ==
  LET updated == fillMissingAI(session.claimData, session.missingFields, answer)
      validation == validateClaimJS(updated, now)
      s1 == [session EXCEPT !.claimData = updated]
  IN IF validation.errorMessage
     THEN Result([s1 EXCEPT !.missingFields = <<"incident_date">>],
                 claims, Reply("future_date"))
     ELSE IF validation.missing = <<>>
     THEN Persist([s1 EXCEPT !.missingFields = validation.missing],
                  updated, claims, now, "claim_recorded")
     ELSE Result([s1 EXCEPT !.missingFields = validation.missing],
                 claims,
                 [Reply("still_missing") EXCEPT !.labels = LabelsOf(validation.missing)])

\* A terminal branch that drops the draft.
DoneTurn_DropsDraft(session, claims) ==
  IF session.state = "done"
  THEN Result([session EXCEPT !.claimData = EmptyObject], claims,
              Reply("already_recorded"))
  ELSE IF session.state = "done_no_claim"
  THEN Result(session, claims, Reply("not_filing"))
  ELSE Result(session, claims, Reply("not_sure"))

DoneTurn(session, claims) ==
  IF session.state = "done"
  THEN Result(session, claims, Reply("already_recorded"))
  ELSE IF session.state = "done_no_claim"
  THEN Result(session, claims, Reply("not_filing"))
  ELSE Result(session, claims, Reply("not_sure"))

\* Whether the turn reaches one of the two oracle calls.
IsCommand(msg) ==
  \/ TestIgnoreCase(<<"r","e","t","r","i","e","v","e">>, msg)
  \/ TestIgnoreCase(<<"r","e","s","t","a","r","t">>, msg)

CallsOracle(session, raw) ==
  /\ ~IsCommand(trim(raw))
  /\ session.state \in {"awaiting_claim_details", "awaiting_missing"}

handleMessage(session, raw, answer, claims, now) ==
  LET msg == trim(raw)
  IN IF TestIgnoreCase(<<"r","e","t","r","i","e","v","e">>, msg)
       THEN OnRetrieve(session, claims)
     ELSE IF TestIgnoreCase(<<"r","e","s","t","a","r","t">>, msg)
       THEN OnRestart(session, claims)
     ELSE IF session.state = "awaiting_claim_id"
       THEN ClaimIdTurn(session, msg, claims)
     ELSE IF session.state = "awaiting_policy_number"
       THEN PolicyTurn(session, msg, claims, now)
     ELSE IF session.state = "confirm_new_claim"
       THEN ConfirmTurn(session, msg, claims)
     ELSE IF session.state = "awaiting_claim_details"
       THEN DetailsTurn(session, answer, claims, now)
     ELSE IF session.state = "awaiting_missing"
       THEN MissingTurn(session, answer, claims, now)
     ELSE DoneTurn(session, claims)

(***************************************************************************)
(* The intent-router variant of the server (src/unnamed/part_000, the      *)
(* server that starts at line 886): detectIntent, extractClaim,            *)
(* fillMissing, validateClaim with date normalisation and numeric          *)
(* coercion.  Its sessions have no lastClaimId; the field stays null.  Its *)
(* records carry two constant keys more (claim_status, pending_with).      *)
(***************************************************************************)
\* msg.toLowerCase().trim() matched against the command phrases
detectIntent(msg) ==
  LET t == trim(toLowerCase(msg))
  IN IF t = <<"e","x","i","t">> THEN "EXIT"
     ELSE IF t = <<"r","e","s","t","a","r","t">> THEN "RESTART"
     ELSE IF includes(t, <<"r","e","t","r","i","e","v","e"," ","c","l","a","i","m">>)
       THEN "RETRIEVE_CLAIM"
     ELSE IF \/ includes(t, <<"v","i","e","w"," ","m","y"," ","c","l","a","i","m","s">>)
             \/ includes(t, <<"a","l","l"," ","c","l","a","i","m","s">>)
       THEN "VIEW_POLICY_CLAIMS"
     ELSE IF \/ includes(t, <<"f","i","l","e"," ","a"," ","n","e","w"," ","c","l","a","i","m">>)
             \/ t = <<"n","e","w"," ","c","l","a","i","m">>
       THEN "FILE_NEW_CLAIM"
     ELSE "CONTINUE"

\* Number(v) for a truthy v: NaN when the string is no numeral
ToNumber(v) ==
  IF v.type = "number" THEN v.num
  ELSE IF v.type = "string"
  THEN LET t == trim(v.str)
       IN IF t = <<>> THEN 0
          ELSE IF \A i \in 1..Len(t) : IsDigit(t[i]) THEN CharsToNat(t)
          ELSE NaN
  ELSE NaN

\* /^\d{4}-\d{2}-\d{2}$/.test(raw): a date string with no time of day
IsIsoDay(v) ==
  /\ v.type = "string"
  /\ ParseDate(v.str) # NaN
  /\ ParseDate(v.str) % TicksPerDay = 0

\* What the date oracle may answer: a date, an object with no date key,
\* ambiguous, invalid (a call that throws or answers no JSON is invalid too).
NormAnswers ==
  { [kind |-> "date", date |-> DateString(PastTick)],
    [kind |-> "date", date |-> DateString(FutureTick)],
    [kind |-> "date", date |-> Undefined],
    [kind |-> "ambiguous", date |-> Undefined],
    [kind |-> "invalid", date |-> Undefined] }

\* normalizeDate(raw): an ISO day is returned as it is, else the oracle's
\* answer norm
normalizeDate(raw, norm) ==
  IF IsIsoDay(raw) THEN [kind |-> "date", date |-> raw] ELSE norm

\* A validator that leaves an amount it cannot coerce as it was.
validateClaim_KeepsRaw(data, norm, now) ==
  LET date == data["incident_date"]
      n == normalizeDate(date, norm)
  IN IF Truthy(date) /\ n.kind = "ambiguous"
     THEN [error |-> "ambiguous", missing |-> <<"incident_date">>, data |-> data]
     ELSE IF Truthy(date) /\ n.kind = "invalid"
     THEN [error |-> "invalid", missing |-> <<"incident_date">>, data |-> data]
     ELSE IF Truthy(date) /\ DateGT(DateOf(n.date), setHoursZero(now))
     THEN [error |-> "future", missing |-> <<"incident_date">>, data |-> data]
     ELSE LET d1 == IF Truthy(date)
                    THEN [data EXCEPT !["incident_date"] = n.date]
                    ELSE data
              amt == ToNumber(d1["claim_amount"])
              d2 == IF Truthy(d1["claim_amount"]) /\ amt # NaN
                    THEN [d1 EXCEPT !["claim_amount"] = Num(amt)]
                    ELSE d1
          IN [error |-> "none",
              missing |-> Filter(REQUIRED_FIELDS, {f \in Fields : ~Truthy(d2[f])}),
              data |-> d2]

\* validateClaim(data): the verdict, the missing list, and data as the
\* validator leaves it (it assigns incident_date and claim_amount in place)
validateClaim(data, norm, now) ==
  LET date == data["incident_date"]
      n == normalizeDate(date, norm)
  IN IF Truthy(date) /\ n.kind = "ambiguous"
     THEN [error |-> "ambiguous", missing |-> <<"incident_date">>, data |-> data]
     ELSE IF Truthy(date) /\ n.kind = "invalid"
     THEN [error |-> "invalid", missing |-> <<"incident_date">>, data |-> data]
     ELSE IF Truthy(date) /\ DateGT(DateOf(n.date), setHoursZero(now))
     THEN [error |-> "future", missing |-> <<"incident_date">>, data |-> data]
     ELSE LET d1 == IF Truthy(date)
                    THEN [data EXCEPT !["incident_date"] = n.date]
                    ELSE data
              amt == ToNumber(d1["claim_amount"])
              d2 == IF Truthy(d1["claim_amount"])
                    THEN [d1 EXCEPT !["claim_amount"] =
                                      IF amt = NaN THEN Null ELSE Num(amt)]
                    ELSE d1
          IN [error |-> "none",
              missing |-> Filter(REQUIRED_FIELDS, {f \in Fields : ~Truthy(d2[f])}),
              data |-> d2]

\* extractClaim(text, defaults) when the oracle call returns: the null
\* skeleton, the parsed object over it, the defaults over both
extractClaim(answer, defaults) ==
  [f \in Keys |->
     IF f \in DOMAIN defaults THEN defaults[f]
     ELSE IF answer.kind = "json" /\ answer.parsed[f] # Undefined
     THEN answer.parsed[f]
     ELSE IF f \in Fields THEN Null
     ELSE Undefined]

\* fillMissing(current, missing, text) when the oracle call returns:
\* parsed ? { ...current, ...parsed } : current
fillMissing(current, missing, answer) ==
  IF answer.kind # "json" THEN current
  ELSE [f \in Keys |->
          IF answer.parsed[f] # Undefined THEN answer.parsed[f] ELSE current[f]]

\* getClaimsByPolicy(policy): claims.filter(c => c.policy_number === policy)
getClaimsByPolicy(claims, policy) ==
  {i \in 1..Len(claims) : claims[i].data["policy_number"] = Str(policy)}

\* What the request ends with when the handler throws: the route's catch
\* answers 500 and the session keeps what was assigned before the throw.
RouterThrew(session, claims) ==
  Result(session, claims, Reply("server_error"))

\* The push, save and reply of a turn whose claim is complete.
RouterPersist(session, data, claims, now) ==
  LET id == generateClaimId(claims)
  IN Result([session EXCEPT !.claimData = data, !.state = "done"],
            Append(claims, ClaimRecord(id, data, now)),
            [Reply("claim_created") EXCEPT !.shown = formatSummary(data),
                                           !.claimId = id])

\* state awaiting_claim_details
RouterDetailsTurn(session, answer, norm, claims, now) ==
  IF session.userDetails = Null \/ answer.kind = "threw"
  THEN RouterThrew(session, claims)
  ELSE LET data == extractClaim(answer,
                     [policy_number |-> session.policyNumber,
                      claimant_name |-> session.userDetails.name])
           v == validateClaim(data, norm, now)
       IN IF v.error # "none"
          THEN Result([session EXCEPT !.claimData = data,
                                      !.missingFields = v.missing,
                                      !.state = "awaiting_missing"],
                      claims, Reply(v.error))
          ELSE IF v.missing = <<>>
          THEN RouterPersist(session, v.data, claims, now)
          ELSE Result([session EXCEPT !.claimData = v.data,
                                      !.missingFields = v.missing,
                                      !.state = "awaiting_missing"],
                      claims,
                      [Reply("missing_fields") EXCEPT !.labels = LabelsOf(v.missing)])

\* state awaiting_missing
RouterMissingTurn(session, answer, norm, claims, now) ==
  IF answer.kind = "threw"
  THEN RouterThrew(session, claims)
  ELSE LET data == fillMissing(session.claimData, session.missingFields, answer)
           v == validateClaim(data, norm, now)
       IN IF v.error # "none"
          THEN Result([session EXCEPT !.claimData = data], claims, Reply(v.error))
          ELSE IF v.missing = <<>>
          THEN RouterPersist(session, v.data, claims, now)
          ELSE Result([session EXCEPT !.claimData = v.data,
                                      !.missingFields = v.missing],
                      claims,
                      [Reply("still_missing") EXCEPT !.labels = LabelsOf(v.missing)])

\* handleMessage(session, msg) of the intent router
RouterHandleMessage(session, msg, answer, norm, claims, now) ==
  LET intent == detectIntent(msg)
      key == toUpperCase(msg)
      policies == loadPolicies
      claim == retrieveClaimById(claims, msg)
  IN IF intent = "EXIT"
       THEN Result(newSession, claims, Reply("goodbye"))
     ELSE IF intent = "RESTART"
       THEN Result(newSession, claims, Reply("restarted"))
     ELSE IF intent = "FILE_NEW_CLAIM"
       THEN Result([session EXCEPT !.claimData = EmptyObject,
                                   !.missingFields = <<>>,
                                   !.state = "awaiting_claim_details"],
                   claims, Reply("file_new_claim"))
     ELSE IF intent = "RETRIEVE_CLAIM"
       THEN Result([session EXCEPT !.state = "awaiting_claim_id"], claims,
                   Reply("ask_claim_id"))
     ELSE IF intent = "VIEW_POLICY_CLAIMS"
       THEN Result([session EXCEPT !.state = "awaiting_policy_for_claims"], claims,
                   Reply("ask_policy_for_claims"))
     ELSE IF session.state = "awaiting_claim_id"
       THEN IF claim = Null
            THEN Result(session, claims, Reply("no_claim_found"))
            ELSE Result(session, claims,
                        [Reply("claim_details") EXCEPT !.shown = claim,
                                                       !.claimId = claim.claimId])
     ELSE IF session.state = "awaiting_policy_for_claims"
       THEN IF getClaimsByPolicy(claims, key) = {}
            THEN Result(session, claims, Reply("no_claims_for_policy"))
            ELSE Result([session EXCEPT !.state = "done"], claims,
                        Reply("policy_claims"))
     ELSE IF session.state = "awaiting_policy_number"
       THEN IF key \notin DOMAIN policies
            THEN Result(session, claims, Reply("invalid_policy"))
            ELSE Result([session EXCEPT !.policyNumber = Str(key),
                                        !.userDetails = policies[key],
                                        !.state = "confirm_new_claim"],
                        claims,
                        [Reply("policy_details") EXCEPT !.shown = policies[key]])
     ELSE IF session.state = "confirm_new_claim"
       THEN IF startsWith(toLowerCase(msg), <<"y">>)
            THEN Result([session EXCEPT !.state = "awaiting_claim_details"],
                        claims, Reply("ask_details"))
            ELSE IF startsWith(toLowerCase(msg), <<"n">>)
            THEN Result([session EXCEPT !.state = "done"], claims,
                        Reply("declined"))
            ELSE Result(session, claims, Reply("yes_or_no"))
     ELSE IF session.state = "awaiting_claim_details"
       THEN RouterDetailsTurn(session, answer, norm, claims, now)
     ELSE IF session.state = "awaiting_missing"
       THEN RouterMissingTurn(session, answer, norm, claims, now)
     ELSE Result(session, claims, Reply("type_restart"))

\* The turn reaches a call of the extraction oracle.
RouterCallsOracle(session, msg) ==
  /\ detectIntent(msg) = "CONTINUE"
  /\ \/ session.state = "awaiting_missing"
     \/ session.state = "awaiting_claim_details" /\ session.userDetails # Null

(***************************************************************************)
(* The state machine.                                                      *)
(***************************************************************************)
VARIABLES
  sessions,   \* the `sessions` table
  claims,     \* claims.json: the sequence of claim records
  clock,      \* what new Date() reads, in ticks
  reply,      \* the reply of the last turn, without the input it quotes
  pending,    \* per session: how far its completing turn has got
  ui          \* the chat component: its sessionId state and its requests

vars == <<sessions, claims, clock, reply, pending, ui>>

\* useState(null): the component holds no session handle yet.
NoSession == "null"

\* The session handles of the requests.  The turns of Spec, which run one
\* after the other, all come from SessionIds.
AllSessionIds == {"s1", "s2"}
SessionIds == {"s1"}

\* No completing turn of the session is under way.
Idle == [pc |-> "idle", claimId |-> Null, data |-> EmptyObject, loaded |-> <<>>]

\* A table in which every handle is bound to the one session object.
WriteSession_Shared(table, sessionId, session) ==
  [t \in DOMAIN table |-> session]

\* getSession(sessionId) hands out the object bound to the handle; what the
\* handler assigns to it is in the table under that handle.
WriteSession(table, sessionId, session) ==
  [table EXCEPT ![sessionId] = session]

Messages ==
  { <<"R","e","s","t","a","r","t">>,
    <<"r","e","s","e","t">>,
    <<"R","e","t","r","i","e","v","e"," ","c","l","a","i","m">>,
    <<"p","o","l","2">>,
    <<"P","O","L","1">>,
    <<"P","O","L","3">>,
    <<"P","O","L","4">>,
    <<" ","Y","e","s">>,
    <<"N","o">>,
    <<"c","l","m","-","1","0","0","0">>,
    <<"C","L","M","-","1","0","0","1">> }

Init ==
  /\ sessions = [s \in AllSessionIds |-> newSession]
  /\ claims = <<>>
  /\ clock \in StartClock..LastClock
  /\ reply = Reply("greeting")
  /\ pending = [s \in AllSessionIds |-> Idle]
  /\ ui = [sessionId |-> NoSession, requests |-> <<>>]

\* POST /api/chat for session s
Turn(s, msg, answer) ==
  \E r \in {handleMessage(sessions[s], msg, answer, claims, clock)} :
     /\ Len(r.claims) <= MaxClaims
     /\ sessions' = WriteSession(sessions, s, r.session)
     /\ claims' = r.claims
     /\ reply' = [r.reply EXCEPT !.quoted = <<>>]
     /\ UNCHANGED <<clock, pending, ui>>

\* A turn that calls no oracle.
Plain ==
  \E s \in SessionIds, msg \in Messages :
    /\ ~CallsOracle(sessions[s], msg)
    /\ Turn(s, msg, NoCall)

\* A turn that calls the oracle.  The text goes to the oracle and nowhere
\* else, so one text stands for all that reach the call.
OracleTexts(s) == {msg \in Messages : CallsOracle(sessions[s], msg)}

Asked ==
  \E s \in SessionIds :
    /\ OracleTexts(s) # {}
    /\ \E answer \in OracleAnswers :
         Turn(s, CHOOSE msg \in OracleTexts(s) : TRUE, answer)

Next == Plain \/ Asked

Spec == Init /\ [][Next]_vars

(***************************************************************************)
(* Overlapping requests.  The handler gives up control at every await, so  *)
(* the completing turns of two sessions interleave at their reads and      *)
(* writes of claims.json: generateClaimId reads the file, loadClaims reads *)
(* it again, saveClaims writes it.  A session has one request under way at *)
(* a time.                                                                 *)
(***************************************************************************)
ConcMessages ==
  { <<"p","o","l","2">>,
    <<" ","Y","e","s">>,
    <<"R","e","s","t","a","r","t">> }

\* Two complete answers that differ, and a failed call.
OtherAnswer == [GoodAnswer EXCEPT !["claim_amount"] = Num(7)]
ConcAnswers == {Json(GoodAnswer), Json(OtherAnswer), Threw}

ConcInputs(s) ==
  {in \in ConcMessages \X (ConcAnswers \cup {NoCall}) :
     (in[2] = NoCall) <=> ~CallsOracle(sessions[s], in[1])}

\* The records whose write is to come: in the file or on the way to it.
InFlight == {s \in AllSessionIds : pending[s].pc # "idle"}

\* A turn that ends without touching claims.json.
QuietTurn ==
  \E s \in AllSessionIds :
    /\ pending[s].pc = "idle"
    /\ \E in \in ConcInputs(s) :
         \E r \in {handleMessage(sessions[s], in[1], in[2], claims, clock)} :
           /\ r.claims = claims
           /\ sessions' = WriteSession(sessions, s, r.session)
           /\ reply' = [r.reply EXCEPT !.quoted = <<>>]
           /\ UNCHANGED <<claims, clock, pending, ui>>

\* A completing turn whose ID also counts the records on their way to the file.
Generate_Reserves ==
  \E s \in AllSessionIds :
    /\ pending[s].pc = "idle"
    /\ Len(claims) + Cardinality(InFlight) < MaxConcClaims
    /\ \E in \in ConcInputs(s) :
         \E r \in {handleMessage(sessions[s], in[1], in[2], claims, clock)} :
           \E id \in {Str(<<"C","L","M","-">> \o
                         NatToChars(1000 + Len(claims) + Cardinality(InFlight)))} :
             /\ r.claims # claims
             /\ sessions' = WriteSession(sessions, s,
                               [r.session EXCEPT !.state = sessions[s].state,
                                                 !.lastClaimId = id])
             /\ pending' = [pending EXCEPT ![s] =
                               [pc |-> "load",
                                claimId |-> id,
                                data |-> r.session.claimData,
                                loaded |-> <<>>]]
             /\ UNCHANGED <<claims, clock, reply, ui>>

\* A completing turn up to `session.lastClaimId = claimId`: the draft is
\* complete, generateClaimId has read the file.
Generate ==
  \E s \in AllSessionIds :
    /\ pending[s].pc = "idle"
    /\ Len(claims) + Cardinality(InFlight) < MaxConcClaims
    /\ \E in \in ConcInputs(s) :
         \E r \in {handleMessage(sessions[s], in[1], in[2], claims, clock)} :
           /\ r.claims # claims
           /\ sessions' = WriteSession(sessions, s,
                             [r.session EXCEPT !.state = sessions[s].state])
           /\ pending' = [pending EXCEPT ![s] =
                             [pc |-> "load",
                              claimId |-> r.session.lastClaimId,
                              data |-> r.session.claimData,
                              loaded |-> <<>>]]
           /\ UNCHANGED <<claims, clock, reply, ui>>

\* const allClaims = await loadClaims()
LoadClaims ==
  \E s \in AllSessionIds :
    /\ pending[s].pc = "load"
    /\ pending' = [pending EXCEPT ![s].pc = "save", ![s].loaded = claims]
    /\ UNCHANGED <<sessions, claims, clock, reply, ui>>

\* push, await saveClaims(allClaims), session.state = "done", the reply
SaveClaims ==
  \E s \in AllSessionIds :
    /\ pending[s].pc = "save"
    /\ claims' = Append(pending[s].loaded,
                        ClaimRecord(pending[s].claimId, pending[s].data, clock))
    /\ sessions' = WriteSession(sessions, s, [sessions[s] EXCEPT !.state = "done"])
    /\ reply' = [Reply("claim_recorded") EXCEPT
                   !.shown = formatSummary(pending[s].data),
                   !.claimId = pending[s].claimId]
    /\ pending' = [pending EXCEPT ![s] = Idle]
    /\ UNCHANGED <<clock, ui>>

NextConc == QuietTurn \/ Generate \/ LoadClaims \/ SaveClaims

SpecConc == Init /\ [][NextConc]_vars

(***************************************************************************)
(* Failing writes.  fs.writeFile may reject: saveClaims throws, the        *)
(* handler ends at `await saveClaims(allClaims)`, the route answers 500.   *)
(* What the turn assigned to the session before stays assigned.            *)
(***************************************************************************)
FailedWrite ==
  \E s \in SessionIds :
    /\ OracleTexts(s) # {}
    /\ \E answer \in OracleAnswers :
         \E r \in {handleMessage(sessions[s], CHOOSE msg \in OracleTexts(s) : TRUE,
                                 answer, claims, clock)} :
           /\ r.claims # claims
           /\ Len(r.claims) <= MaxClaims
           /\ sessions' = WriteSession(sessions, s,
                             [r.session EXCEPT !.state = sessions[s].state])
           /\ reply' = Reply("internal_server_error")
           /\ UNCHANGED <<claims, clock, pending, ui>>

NextWrite == Next \/ FailedWrite

SpecWrite == Init /\ [][NextWrite]_vars

(***************************************************************************)
(* The intent router as a state machine: the same variables, its own turns.*)
(***************************************************************************)
RouterMessages ==
  { <<"R","e","s","t","a","r","t">>,
    <<"e","x","i","t">>,
    <<"R","e","t","r","i","e","v","e"," ","c","l","a","i","m">>,
    <<"v","i","e","w"," ","m","y"," ","c","l","a","i","m","s">>,
    <<"F","i","l","e"," ","a"," ","n","e","w"," ","c","l","a","i","m">>,
    <<"p","o","l","2">>,
    <<"P","O","L","1">>,
    <<"Y","e","s">>,
    <<"n","o">>,
    <<"c","l","m","-","1","0","0","0">> }

\* What the extraction oracle may answer in the router: no answer, content
\* that is no JSON, the well-formed answer, or that answer with one key
\* changed: a value left out, an amount that is no number, an amount that is
\* a numeral, an amount of zero, a date of tomorrow, a date in words.
RouterDeviations ==
  { <<"claim_type", Null>>, <<"claim_amount", Null>>,
    <<"incident_date", Null>>,
    <<"claim_amount", Str(<<"l","o","t","s">>)>>,
    <<"claim_amount", Str(<<"1","2">>)>>,
    <<"claim_amount", Str(<<"0">>)>>,
    <<"claim_amount", Num(0)>>,
    <<"incident_date", DateString(FutureTick)>>,
    <<"incident_date", Str(<<"s","o","o","n">>)>> }

RouterAnswers ==
  {Threw, Unparsable, Json(GoodAnswer)}
    \cup {Json(Deviate({d})) : d \in RouterDeviations}

\* POST /api/chat of the intent router for session s
RouterTurn(s, msg, answer, norm) ==
  \E r \in {RouterHandleMessage(sessions[s], msg, answer, norm, claims, clock)} :
     /\ Len(r.claims) <= MaxClaims
     /\ sessions' = WriteSession(sessions, s, r.session)
     /\ claims' = r.claims
     /\ reply' = r.reply
     /\ UNCHANGED <<clock, pending, ui>>

\* A turn that calls no oracle.
RouterPlain ==
  \E s \in SessionIds, msg \in RouterMessages :
    /\ ~RouterCallsOracle(sessions[s], msg)
    /\ RouterTurn(s, msg, NoCall, CHOOSE n \in NormAnswers : TRUE)

RouterOracleTexts(s) ==
  {msg \in RouterMessages : RouterCallsOracle(sessions[s], msg)}

\* A turn that calls the extraction oracle and, for a date that is no ISO
\* day, the date oracle.
RouterAsked ==
  \E s \in SessionIds :
    /\ RouterOracleTexts(s) # {}
    /\ \E answer \in RouterAnswers, norm \in NormAnswers :
         RouterTurn(s, CHOOSE msg \in RouterOracleTexts(s) : TRUE, answer, norm)

NextRouter == RouterPlain \/ RouterAsked

SpecRouter == Init /\ [][NextRouter]_vars

(***************************************************************************)
(* The chat component against the server.  sendMessage reads `sessionId`   *)
(* from the render it was created in, puts it in the payload, awaits the   *)
(* response and tests the same value again before it calls setSessionId.   *)
(* Nothing keeps the user from sending again while a request is under way, *)
(* and responses arrive in any order.                                      *)
(***************************************************************************)
\* How many messages the user sends.
MaxSends == 2

UIMessages ==
  { <<"p","o","l","2">>,
    <<"Y","e","s">>,
    <<"R","e","t","r","i","e","v","e"," ","c","l","a","i","m">> }

\* generateSessionId(): a handle no request of the component has been given
FreshHandles ==
  AllSessionIds
    \ {ui.requests[i].returnedId : i \in 1..Len(ui.requests)}

\* The requests the server has handled.
Handled == {i \in 1..Len(ui.requests) : ui.requests[i].stage # "sent"}

\* sendMessage up to the await: the payload carries the sessionId of the
\* current render
UISend ==
  \E msg \in UIMessages :
    /\ Len(ui.requests) < MaxSends
    /\ ui' = [ui EXCEPT !.requests =
                Append(@, [message |-> msg, sessionId |-> ui.sessionId,
                           stage |-> "sent", returnedId |-> NoSession])]
    /\ UNCHANGED <<sessions, claims, clock, reply, pending>>

\* POST /api/chat for request i: a missing sessionId gets a fresh one
UIHandle ==
  \E i \in 1..Len(ui.requests) :
    /\ ui.requests[i].stage = "sent"
    /\ \E id \in (IF ui.requests[i].sessionId = NoSession
                  THEN FreshHandles
                  ELSE {ui.requests[i].sessionId}) :
         \E answer \in (IF CallsOracle(sessions[id], ui.requests[i].message)
                        THEN ConcAnswers ELSE {NoCall}) :
           \E r \in {handleMessage(sessions[id], ui.requests[i].message,
                                   answer, claims, clock)} :
              /\ Len(r.claims) <= MaxClaims
              /\ sessions' = WriteSession(sessions, id, r.session)
              /\ claims' = r.claims
              /\ reply' = [r.reply EXCEPT !.quoted = <<>>]
              /\ ui' = [ui EXCEPT !.requests[i].stage = "handled",
                                  !.requests[i].returnedId = id]
              /\ UNCHANGED <<clock, pending>>

\* sendMessage after the await, for the response to request i:
\* if (!sessionId) setSessionId(res.data.sessionId), with the sessionId the
\* request was sent with
UIReceive ==
  \E i \in 1..Len(ui.requests) :
    /\ ui.requests[i].stage = "handled"
    /\ ui' = [ui EXCEPT !.requests[i].stage = "received",
                        !.sessionId = IF ui.requests[i].sessionId = NoSession
                                      THEN ui.requests[i].returnedId
                                      ELSE @]
    /\ UNCHANGED <<sessions, claims, clock, reply, pending>>

NextUI == UISend \/ UIHandle \/ UIReceive

SpecUI == Init /\ [][NextUI]_vars

(***************************************************************************)
(* What the properties below talk about.                                   *)
(***************************************************************************)
\* A value is set: not null, not undefined, not the empty string.
IsSet(v) == NotNullish(v) /\ v # Str(<<>>)

\* The required fields that are not set, in required-field order.
UnsetFields(data) == Filter(REQUIRED_FIELDS, {f \in Fields : ~IsSet(data[f])})

\* The required fields whose value is falsy, in required-field order.
FalsyFields(data) == Filter(REQUIRED_FIELDS, {f \in Fields : ~Truthy(data[f])})

\* v denotes a date, and one of a day after the day of `now`.
IsDate(v) == DateOf(v) # NaN
AfterToday(v, now) == IsDate(v) /\ DayOf(DateOf(v)) > DayOf(now)

\* The handler takes its restart branch on this input.
IsRestart(raw) ==
  /\ ~TestIgnoreCase(<<"r","e","t","r","i","e","v","e">>, trim(raw))
  /\ TestIgnoreCase(<<"r","e","s","t","a","r","t">>, trim(raw))

Asking(s) == sessions[s].state \in {"awaiting_claim_details", "awaiting_missing"}

\* The inputs of a turn of session s in the current state: a text with no
\* oracle answer when the turn calls no oracle; else every oracle answer, with
\* one text, since such a turn hands its text to the oracle and reads it no
\* further.
OracleText(s) == CHOOSE msg \in OracleTexts(s) : TRUE

Inputs(s) ==
  {<<m, NoCall>> : m \in {x \in Messages : ~CallsOracle(sessions[s], x)}}
    \cup (IF Asking(s) THEN {<<OracleText(s), a>> : a \in OracleAnswers} ELSE {})

\* What the turn of session s on input in = <<text, answer>> ends with.
Outcome(s, in) == handleMessage(sessions[s], in[1], in[2], claims, clock)

\* The draft that a turn which calls the oracle validates.
DraftOf(s, answer) ==
  IF sessions[s].state = "awaiting_claim_details"
  THEN extractClaimFlexible(answer,
         [claimant_name |-> sessions[s].userDetails.name,
          policy_number |-> sessions[s].policyNumber])
  ELSE fillMissingAI(sessions[s].claimData, sessions[s].missingFields, answer)

(***************************************************************************)
(* Properties of the intake flow.                                          *)
(***************************************************************************)

\* C1: every record in the claim store has a set value (not null, not
\* undefined, not the empty string) for each of the eight required fields.
\* Records are written once and never changed, so this is their content at
\* the moment they were written.
C1_RecordsComplete ==
  \A i \in 1..Len(claims) : \A f \in Fields : IsSet(claims[i].data[f])

\* A turn has just written a record.
C1_Witness ==
  /\ reply.kind = "claim_recorded"
  /\ \E i \in 1..Len(claims) : claims[i].claimId = reply.claimId

\* C2: a session persists at most one record between two restarts.  A session
\* that has persisted carries the record's ID in lastClaimId.  For every
\* input in every reachable state: a turn that changes the store appends
\* exactly one record, starts without a lastClaimId and ends in `done` with
\* one; and a turn of a session that has a lastClaimId, on an input other
\* than a restart, keeps the lastClaimId and leaves the store alone.
C2_OneRecordPerIntake ==
  \A s \in SessionIds : \A in \in Inputs(s) :
    LET r == Outcome(s, in)
    IN /\ r.claims # claims =>
            /\ Len(r.claims) = Len(claims) + 1
            /\ SubSeq(r.claims, 1, Len(claims)) = claims
            /\ sessions[s].lastClaimId = Null
            /\ r.session.lastClaimId # Null
            /\ r.session.state = "done"
       /\ (sessions[s].lastClaimId # Null /\ ~IsRestart(in[1])) =>
            /\ r.session.lastClaimId = sessions[s].lastClaimId
            /\ r.claims = claims

\* A session that persisted has since handled an input that is no restart,
\* and the store holds its one record.
C2_Witness ==
  \E s \in SessionIds :
    /\ sessions[s].state = "done"
    /\ sessions[s].lastClaimId # Null
    /\ reply.kind = "already_recorded"
    /\ Len(claims) = 1

\* C3: in awaiting_missing, a field that is non-null in the draft and for
\* which the oracle answers null or nothing has the same value after the turn.
C3_GapFillKeeps ==
  \A s \in SessionIds :
    sessions[s].state = "awaiting_missing" =>
      \A in \in Inputs(s) :
        in[2].kind = "json" =>
          LET after == Outcome(s, in).session.claimData
          IN \A f \in Fields :
               (NotNullish(sessions[s].claimData[f]) /\ ~NotNullish(in[2].parsed[f]))
                 => after[f] = sessions[s].claimData[f]

\* A gap-fill turn has ended with fields still missing: the draft holds set
\* fields, for which every oracle answer of the model carries null
\* (claimant_name, policy_number) or can carry null (the others).
C3_Witness ==
  \E s \in SessionIds :
    /\ sessions[s].state = "awaiting_missing"
    /\ reply.kind = "still_missing"
    /\ \E f \in Fields \ {"claimant_name", "policy_number"} :
         /\ NotNullish(sessions[s].claimData[f])
         /\ \E a \in OracleAnswers : a.kind = "json" /\ a.parsed[f] = Null

\* C4: in awaiting_claim_details, whatever the oracle answers, the draft the
\* turn leaves has the policy holder's name as claimant_name and the verified
\* policy number as policy_number.
C4_DefaultsWin ==
  \A s \in SessionIds :
    sessions[s].state = "awaiting_claim_details" =>
      \A in \in Inputs(s) :
        in[2] # NoCall =>
          LET r == Outcome(s, in)
          IN /\ r.session.claimData["claimant_name"] = sessions[s].userDetails.name
             /\ r.session.claimData["policy_number"] = sessions[s].policyNumber

\* A session is about to extract, and the oracle may answer with another
\* name and another policy number than the verified ones.
C4_Witness ==
  \E s \in SessionIds :
    /\ sessions[s].state = "awaiting_claim_details"
    /\ \E a, b \in OracleAnswers :
         /\ a.kind = "json" /\ IsSet(a.parsed["claimant_name"])
         /\ a.parsed["claimant_name"] # sessions[s].userDetails.name
         /\ Outcome(s, <<OracleText(s), a>>)
              .session.claimData["claimant_name"] = sessions[s].userDetails.name
         /\ b.kind = "json" /\ IsSet(b.parsed["policy_number"])
         /\ b.parsed["policy_number"] # sessions[s].policyNumber

\* C5: in awaiting_claim_details and in awaiting_missing, when the draft after
\* extraction holds an incident date of a day after the current day, the turn
\* gives the future-date rejection, has incident_date in missingFields,
\* persists nothing and ends in awaiting_missing, whatever the other fields.
C5_FutureDateRejected ==
  \A s \in SessionIds :
    Asking(s) =>
      \A in \in Inputs(s) :
        (in[2] # NoCall /\ AfterToday(DraftOf(s, in[2])["incident_date"], clock)) =>
          LET r == Outcome(s, in)
          IN /\ r.reply.kind = "future_date"
             /\ \E i \in 1..Len(r.session.missingFields) :
                  r.session.missingFields[i] = "incident_date"
             /\ r.claims = claims
             /\ r.session.state = "awaiting_missing"

\* A turn has just rejected a date of a later day, in a draft in which
\* another field is unset.
C5_Witness ==
  \E s \in SessionIds :
    /\ reply.kind = "future_date"
    /\ sessions[s].state = "awaiting_missing"
    /\ AfterToday(sessions[s].claimData["incident_date"], clock)
    /\ \E f \in Fields \ {"incident_date"} : ~IsSet(sessions[s].claimData[f])

\* C6: every record in the claim store has an incident_date that denotes a
\* calendar date, of a day not later than the day the record was written.
C6_StoredDatesValid ==
  \A i \in 1..Len(claims) :
    /\ IsDate(claims[i].data["incident_date"])
    /\ DayOf(DateOf(claims[i].data["incident_date"])) <= DayOf(claims[i].createdAt)

\* C7: for a session in done or done_no_claim, an input other than a restart
\* leaves claimData and lastClaimId as they were and adds no record.
C7_TerminalStatesInert ==
  \A s \in SessionIds :
    sessions[s].state \in {"done", "done_no_claim"} =>
      \A in \in Inputs(s) :
        ~IsRestart(in[1]) =>
          LET r == Outcome(s, in)
          IN /\ r.session.claimData = sessions[s].claimData
             /\ r.session.lastClaimId = sessions[s].lastClaimId
             /\ r.claims = claims

\* A session that persisted, and so holds a draft and a claim ID, has just
\* handled an input in `done`.
C7_Witness ==
  \E s \in SessionIds :
    /\ sessions[s].state = "done"
    /\ reply.kind = "already_recorded"
    /\ sessions[s].claimData # EmptyObject
    /\ sessions[s].lastClaimId # Null

\* The validator turns a draft down for its date: the incident date denotes
\* an instant after local midnight of the current day.
RejectedForDate(data, now) ==
  /\ IsDate(data["incident_date"])
  /\ DateOf(data["incident_date"]) > setHoursZero(now)

C9_CompleteExtractionPersists ==
  \A s \in SessionIds :
    sessions[s].state = "awaiting_claim_details" =>
      \A a \in OracleAnswers :
        LET draft == DraftOf(s, a)
            r == Outcome(s, <<OracleText(s), a>>)
        IN (UnsetFields(draft) = <<>> /\ ~AfterToday(draft["incident_date"], clock)) =>
             /\ Len(r.claims) = Len(claims) + 1
             /\ SubSeq(r.claims, 1, Len(claims)) = claims
             /\ r.session.lastClaimId = r.claims[Len(r.claims)].claimId
             /\ r.session.state = "done"
             /\ r.reply.claimId = r.session.lastClaimId
             /\ claims = <<>> =>
                  r.session.lastClaimId = Str(<<"C","L","M","-","1","0","0","0">>)

\* C10: a turn in awaiting_claim_details whose extraction leaves a required
\* field unset and holds no incident date of a later day persists nothing,
\* moves to awaiting_missing, and replies with the labels of exactly the unset
\* fields, in required-field order.
C10_IncompleteExtractionAsks ==
  \A s \in SessionIds :
    sessions[s].state = "awaiting_claim_details" =>
      \A a \in OracleAnswers :
        LET draft == DraftOf(s, a)
            r == Outcome(s, <<OracleText(s), a>>)
        IN (UnsetFields(draft) # <<>> /\ ~AfterToday(draft["incident_date"], clock)) =>
             /\ r.claims = claims
             /\ r.session.state = "awaiting_missing"
             /\ r.reply.kind = "still_need"
             /\ r.reply.labels = LabelsOf(UnsetFields(draft))

\* The message is the word restart or the word reset, in any letter case.
IsRestartOrReset(raw) ==
  toLowerCase(trim(raw)) \in { <<"r","e","s","t","a","r","t">>,
                               <<"r","e","s","e","t">> }

\* C11: from every reachable session state, a message that is `restart` or
\* `reset` in any letter case puts the session back to its initial value:
\* state awaiting_policy_number, policyNumber, userDetails and lastClaimId
\* null, claimData and missingFields empty.
C11_RestartOrResetResets ==
  \A s \in SessionIds : \A in \in Inputs(s) :
    IsRestartOrReset(in[1]) =>
      LET after == Outcome(s, in).session
      IN /\ after.state = "awaiting_policy_number"
         /\ after.policyNumber = Null
         /\ after.userDetails = Null
         /\ after.lastClaimId = Null
         /\ after.claimData = EmptyObject
         /\ after.missingFields = <<>>

\* The policy directory has the input, trimmed and upper-cased, as a key.
IsPolicyKey(raw) == toUpperCase(trim(raw)) \in DOMAIN loadPolicies

\* C12, as stated: in awaiting_policy_number, input that is no key of the
\* policy directory leaves the state and every other session field as they
\* were and gets a reply that names the input.
C12_UnknownPolicyStays ==
  \A s \in SessionIds :
    sessions[s].state = "awaiting_policy_number" =>
      \A in \in Inputs(s) :
        ~IsPolicyKey(in[1]) =>
          LET r == Outcome(s, in)
          IN /\ r.session = sessions[s]
             /\ r.reply.quoted = trim(in[1])

\* C12, amended: in awaiting_policy_number, input that holds neither
\* `retrieve` nor `restart` (in any letter case) and is no key of the policy
\* directory leaves the whole session as it was and gets the invalid-policy
\* reply, which names the input.
C12_UnknownPolicyStaysUnlessCommand ==
  \A s \in SessionIds :
    sessions[s].state = "awaiting_policy_number" =>
      \A in \in Inputs(s) :
        (~IsPolicyKey(in[1]) /\ ~IsCommand(trim(in[1]))) =>
          LET r == Outcome(s, in)
          IN /\ r.session = sessions[s]
             /\ r.reply.kind = "invalid_policy"
             /\ r.reply.quoted = trim(in[1])
             /\ r.claims = claims

\* A turn has just turned an unknown policy number down.
C12_Witness ==
  \E s \in SessionIds :
    /\ sessions[s].state = "awaiting_policy_number"
    /\ reply.kind = "invalid_policy"
    /\ sessions[s].policyNumber = Null
    /\ \E in \in Inputs(s) :
         /\ ~IsPolicyKey(in[1])
         /\ Outcome(s, in).reply.quoted = trim(in[1])
         /\ [Outcome(s, in).reply EXCEPT !.quoted = <<>>] = reply

\* The policy's validity end date is an earlier day than the day of `now`.
IsExpired(policy, now) ==
  /\ IsDate(policy.validTill)
  /\ DayOf(DateOf(policy.validTill)) < DayOf(now)

\* C13: in awaiting_policy_number, input that matches, ignoring letter case,
\* a policy that is not expired stores the upper-cased policy number and the
\* policy record, moves the session to confirm_new_claim, and gets the reply
\* that lists the policy's attributes and asks yes/no.
C13_ActivePolicyAccepted ==
  \A s \in SessionIds :
    sessions[s].state = "awaiting_policy_number" =>
      \A in \in Inputs(s) :
        LET key == toUpperCase(trim(in[1]))
        IN (IsPolicyKey(in[1]) /\ ~IsExpired(loadPolicies[key], clock)) =>
             LET r == Outcome(s, in)
             IN /\ r.session.policyNumber = Str(key)
                /\ r.session.userDetails = loadPolicies[key]
                /\ r.session.state = "confirm_new_claim"
                /\ r.reply.kind = "policy_details"
                /\ r.reply.shown = loadPolicies[key]

\* The states a session is in after a lookup that found an expired policy,
\* until it is restarted.
Closed == {"done_no_claim", "awaiting_claim_id"}

\* C14: a session whose policy lookup finds an expired policy moves to
\* done_no_claim and persists no claim until it is restarted.  For every
\* input in every reachable state: the lookup of an expired policy ends in
\* done_no_claim and stores nothing; and from done_no_claim, and from
\* awaiting_claim_id, which a lookup phrase leads to, an input other than a
\* restart stays in these two states and leaves the store alone.
C14_ExpiredPolicyCloses ==
  \A s \in SessionIds : \A in \in Inputs(s) :
    LET r == Outcome(s, in)
        key == toUpperCase(trim(in[1]))
    IN /\ ( /\ sessions[s].state = "awaiting_policy_number"
            /\ IsPolicyKey(in[1])
            /\ IsExpired(loadPolicies[key], clock) ) =>
              /\ r.session.state = "done_no_claim"
              /\ r.session.policyNumber = Null
              /\ r.claims = claims
       /\ (sessions[s].state \in Closed /\ ~IsRestart(in[1])) =>
              /\ r.session.state \in Closed
              /\ r.claims = claims

\* A session that was turned away for an expired policy has since handled an
\* input in done_no_claim.
C14_Witness ==
  \E s \in SessionIds :
    /\ sessions[s].state = "done_no_claim"
    /\ sessions[s].policyNumber = Null
    /\ reply.kind = "not_filing"

\* C15: with completions processed one at a time, the n-th record of the
\* claim store, which starts empty, has claimId CLM-(1000+n-1); the claimIds
\* of the store are then pairwise distinct.
C15_SequentialIds ==
  /\ \A n \in 1..Len(claims) :
        claims[n].claimId = Str(<<"C","L","M","-">> \o NatToChars(1000 + n - 1))
  /\ \A i, j \in 1..Len(claims) :
        claims[i].claimId = claims[j].claimId => i = j

\* C16: a record once written to the claim store is never removed or altered
\* by a later turn of any session, also when the turns of different sessions
\* overlap at their reads and writes of the store: every step leaves the
\* records of the store in place and as they are.
C16_RecordsStay ==
  [][/\ Len(claims') >= Len(claims)
     /\ \A i \in 1..Len(claims) : claims'[i] = claims[i]]_vars

\* C19: handling a message for one session leaves state, policy data, draft,
\* missingFields and lastClaimId of every other session unchanged: a step
\* that changes one session changes no other.
C19_OtherSessionsUntouched ==
  [][\A s, t \in AllSessionIds :
       (s # t /\ sessions'[s] # sessions[s]) => sessions'[t] = sessions[t]]_vars

\* Both sessions have moved, and to different places.
C19_Witness ==
  /\ sessions["s1"].state = "done"
  /\ sessions["s2"].state = "awaiting_missing"
  /\ sessions["s1"].claimData # sessions["s2"].claimData

\* C20: when two sessions complete at the same time, both records can get
\* the same claimId: the ID a completing turn is given is CLM-(1000 + the
\* number of records in the store when the turn reads it), whatever other
\* completions are under way.
C20_IdFromStoredCount ==
  [][\A s \in AllSessionIds :
       (pending[s].pc = "idle" /\ pending'[s].pc = "load")
         => /\ pending'[s].claimId =
                 Str(<<"C","L","M","-">> \o NatToChars(1000 + Len(claims)))
            /\ sessions'[s].lastClaimId = pending'[s].claimId]_vars

\* Two sessions have completed; the store holds both records under one ID.
C20_Witness ==
  /\ Len(claims) = 2
  /\ claims[1].claimId = claims[2].claimId
  /\ claims[1].data # claims[2].data
  /\ \A s \in AllSessionIds :
        /\ sessions[s].state = "done"
        /\ pending[s].pc = "idle"
        /\ sessions[s].lastClaimId = claims[1].claimId

\* What new Date() may read when a later request of a session arrives: the
\* current time, or the same time of the next day.  A session waits for its
\* next request unchanged, however long.
LaterTimes == {clock, clock + TicksPerDay}

\* The oracle call threw, or its response is no JSON.
OracleFails == {Threw, Unparsable}

\* The reply asks again for the fields the session lists as missing.
RePrompts(r, session) ==
  \/ /\ r.reply.kind = "still_missing"
     /\ r.reply.labels = LabelsOf(session.missingFields)
  \/ /\ r.reply.kind = "future_date"
     /\ session.missingFields = <<"incident_date">>

\* C17: in awaiting_missing, when the oracle call fails or its response
\* cannot be parsed, the turn leaves claimData and missingFields unchanged,
\* stays in awaiting_missing, persists nothing and replies with a re-prompt
\* for the same missing fields.
C17_OracleFailureIsNoOp ==
  \A s \in SessionIds :
    sessions[s].state = "awaiting_missing" =>
      \A a \in OracleFails, now \in LaterTimes :
        LET r == handleMessage(sessions[s], OracleText(s), a, claims, now)
        IN /\ r.session.claimData = sessions[s].claimData
           /\ r.session.missingFields = sessions[s].missingFields
           /\ r.session.state = "awaiting_missing"
           /\ r.claims = claims
           /\ RePrompts(r, sessions[s])

\* C18: once session.policyNumber is non-null, it and the policy snapshot
\* keep their value after every turn that is no restart.
C18_PolicyKept ==
  \A s \in SessionIds :
    sessions[s].policyNumber # Null =>
      \A in \in Inputs(s) :
        ~IsRestart(in[1]) =>
          LET r == Outcome(s, in)
          IN /\ r.session.policyNumber = sessions[s].policyNumber
             /\ r.session.userDetails = sessions[s].userDetails

\* A session with a verified policy has gone on to look a claim up.
C18_Witness ==
  /\ sessions["s1"].policyNumber # Null
  /\ sessions["s1"].userDetails # Null
  /\ sessions["s1"].state = "awaiting_claim_id"
  /\ reply.kind = "enter_claim_id"

\* The fields a list names.
ListedIn(missing) == {missing[i] : i \in 1..Len(missing)}

\* C21: in awaiting_missing, a required field that is not in
\* session.missingFields before the turn has the same draft value after the
\* turn, whatever the oracle returns.
C21_UnlistedFieldsKept ==
  \A s \in SessionIds :
    sessions[s].state = "awaiting_missing" =>
      \A in \in Inputs(s) :
        in[2] # NoCall =>
          LET after == Outcome(s, in).session.claimData
          IN \A f \in Fields \ ListedIn(sessions[s].missingFields) :
               after[f] = sessions[s].claimData[f]

\* C22: between restarts, a required field that is set in claimData (not
\* null, not empty) before a turn in awaiting_missing is still set after
\* that turn: the set of unset fields does not grow.
C22_SetFieldsStaySet ==
  \A s \in SessionIds :
    sessions[s].state = "awaiting_missing" =>
      \A in \in Inputs(s) :
        ~IsRestart(in[1]) =>
          LET after == Outcome(s, in).session.claimData
          IN \A f \in Fields :
               IsSet(sessions[s].claimData[f]) => IsSet(after[f])

\* C23: every record in the claim store has the policy number that was
\* verified in the session that filed it: the record a turn appends carries
\* the session's policyNumber.
C23_RecordHasVerifiedPolicy ==
  \A s \in SessionIds : \A in \in Inputs(s) :
    LET r == Outcome(s, in)
    IN Len(r.claims) > Len(claims) =>
         r.claims[Len(r.claims)].data["policy_number"] = sessions[s].policyNumber

\* The input holds the lookup phrase.
IsLookup(raw) == TestIgnoreCase(<<"r","e","t","r","i","e","v","e">>, trim(raw))

\* C24: a session enters awaiting_claim_id only through a lookup command
\* received in awaiting_policy_number; a lookup phrase received in any other
\* state leaves the state as it is.
C24_LookupOnlyFromStart ==
  \A s \in SessionIds : \A in \in Inputs(s) :
    LET r == Outcome(s, in)
    IN /\ (r.session.state = "awaiting_claim_id"
             /\ sessions[s].state # "awaiting_claim_id")
            => (sessions[s].state = "awaiting_policy_number" /\ IsLookup(in[1]))
       /\ (IsLookup(in[1]) /\ sessions[s].state # "awaiting_policy_number")
            => r.session.state = sessions[s].state

\* The reply shows a stored record whose claimId is id up to letter case, or
\* says that there is none.
AnswersLookup(r, id, store) ==
  LET hits == {i \in 1..Len(store) :
                 toLowerCase(store[i].claimId.str) = toLowerCase(id)}
  IN IF hits = {}
     THEN r.reply.kind = "no_claim_found" /\ r.reply.quoted = id
     ELSE /\ r.reply.kind = "claim_details"
          /\ \E i \in hits : r.reply.shown = store[i]

\* C25: in awaiting_claim_id, every input other than a restart
\* command leaves the session in awaiting_claim_id with policy data, draft,
\* missingFields and lastClaimId unchanged, leaves the claim store unchanged,
\* and is answered with the record of that claimId or with not-found.
C25_LookupAnswersEveryInput ==
  \A s \in SessionIds :
    sessions[s].state = "awaiting_claim_id" =>
      \A in \in Inputs(s) :
        ~IsRestart(in[1]) =>
          LET r == Outcome(s, in)
          IN /\ r.session = sessions[s]
             /\ r.claims = claims
             /\ AnswersLookup(r, trim(in[1]), claims)

\* The first character of the input as the handler reads it, after trim().
FirstChar(raw) == IF trim(raw) = <<>> THEN "" ELSE trim(raw)[1]

\* The turn of session s on input in does what confirm_new_claim is said to
\* do on an input with this first character.
ConfirmsByFirstChar(s, in) ==
  LET r == Outcome(s, in)
      c == FirstChar(in[1])
  IN /\ r.claims = claims
     /\ c \in {"y", "Y"} =>
          r.session = [sessions[s] EXCEPT !.state = "awaiting_claim_details"]
     /\ c \in {"n", "N"} =>
          r.session = [sessions[s] EXCEPT !.state = "done_no_claim"]
     /\ c \notin {"y", "Y", "n", "N"} =>
          /\ r.session = sessions[s]
          /\ r.reply.kind = "answer_yes_or_no"

C28_DoneHasItsRecord ==
  \A s \in SessionIds :
    sessions[s].state = "done" =>
      \E i \in 1..Len(claims) : claims[i].claimId = sessions[s].lastClaimId

\* The two fields the policy supplies, and the six the user has to give.
DefaultFields == {"claimant_name", "policy_number"}
SixOthers == Filter(REQUIRED_FIELDS, Fields \ DefaultFields)

\* C29: in awaiting_claim_details, when the oracle call fails or its response
\* cannot be parsed, the draft holds the two defaults and no other set field,
\* the session moves to awaiting_missing with the six other fields reported
\* missing, nothing is persisted, and the turn ends with a normal reply.
C29_FailedExtractionKeepsDefaults ==
  \A s \in SessionIds :
    sessions[s].state = "awaiting_claim_details" =>
      \A a \in OracleFails :
        LET r == handleMessage(sessions[s], OracleText(s), a, claims, clock)
        IN /\ r.session.claimData["claimant_name"] = sessions[s].userDetails.name
           /\ r.session.claimData["policy_number"] = sessions[s].policyNumber
           /\ \A f \in DefaultFields : IsSet(r.session.claimData[f])
           /\ \A f \in Fields \ DefaultFields : ~IsSet(r.session.claimData[f])
           /\ r.session.state = "awaiting_missing"
           /\ r.session.missingFields = SixOthers
           /\ r.session.policyNumber = sessions[s].policyNumber
           /\ r.session.lastClaimId = sessions[s].lastClaimId
           /\ r.claims = claims
           /\ r.reply.kind = "still_need"
           /\ r.reply.labels = LabelsOf(SixOthers)

\* The oracle call of a details turn has thrown: the draft is the two
\* defaults, the six others are asked for.
C29_Witness ==
  /\ sessions["s1"].state = "awaiting_missing"
  /\ reply.kind = "still_need"
  /\ sessions["s1"].missingFields = SixOthers
  /\ sessions["s1"].claimData["policy_number"] = sessions["s1"].policyNumber
  /\ \A f \in Fields \ DefaultFields : sessions["s1"].claimData[f] = Undefined

\* The states of an intake under way, in the order the flow takes them.
IntakeStates == {"confirm_new_claim", "awaiting_claim_details", "awaiting_missing"}

\* C30: a session persists a claim only if, since its last restart, it
\* verified an active policy in awaiting_policy_number, then got an
\* affirmative answer in confirm_new_claim, then passed through
\* awaiting_claim_details, in that order.  Stated step by step: a session
\* under intake holds a verified policy that has not run out; a record is
\* appended only from awaiting_claim_details or awaiting_missing;
\* awaiting_missing is entered only from awaiting_claim_details, that state
\* only from confirm_new_claim on an affirmative answer, that state only
\* from awaiting_policy_number on the number of an active policy; and
\* awaiting_policy_number is re-entered only by a restart, which drops the
\* policy.
C30_PersistOnlyAfterIntakeSteps ==
  \A s \in SessionIds :
    /\ sessions[s].state \in IntakeStates =>
         /\ sessions[s].policyNumber # Null
         /\ sessions[s].policyNumber.str \in DOMAIN loadPolicies
         /\ sessions[s].userDetails = loadPolicies[sessions[s].policyNumber.str]
         /\ ~IsExpired(sessions[s].userDetails, clock)
    /\ \A in \in Inputs(s) :
         LET r == Outcome(s, in)
             old == sessions[s].state
             new == r.session.state
         IN /\ r.claims # claims =>
                 old \in {"awaiting_claim_details", "awaiting_missing"}
            /\ (new = "awaiting_missing" /\ old # new) =>
                 old = "awaiting_claim_details"
            /\ (new = "awaiting_claim_details" /\ old # new) =>
                 (old = "confirm_new_claim" /\ FirstChar(in[1]) \in {"y", "Y"})
            /\ (new = "confirm_new_claim" /\ old # new) =>
                 /\ old = "awaiting_policy_number"
                 /\ IsPolicyKey(in[1])
                 /\ r.session.policyNumber = Str(toUpperCase(trim(in[1])))
            /\ (new = "awaiting_policy_number" /\ old # new) =>
                 (IsRestart(in[1]) /\ r.session = newSession)

\* A session has gone through the steps and its claim is in the store.
C30_Witness ==
  /\ sessions["s1"].state = "done"
  /\ reply.kind = "claim_recorded"
  /\ Len(claims) = 1
  /\ claims[1].data["policy_number"] = sessions["s1"].policyNumber
  /\ ~IsExpired(sessions["s1"].userDetails, clock)

\* C31: in every reachable state where a session is in confirm_new_claim,
\* awaiting_claim_details, awaiting_missing or done, its policyNumber and its
\* policy snapshot are non-null and the snapshot has the holder's name, so
\* the defaults read in awaiting_claim_details do not fail.
C31_PolicyPresentInFlow ==
  \A s \in SessionIds :
    sessions[s].state \in IntakeStates \cup {"done"} =>
      /\ sessions[s].policyNumber # Null
      /\ sessions[s].userDetails # Null
      /\ sessions[s].userDetails \in {loadPolicies[k] : k \in DOMAIN loadPolicies}

\* A session that filed its claim has been asked again and still holds both.
C31_Witness ==
  /\ sessions["s1"].state = "done"
  /\ reply.kind = "already_recorded"
  /\ sessions["s1"].policyNumber # Null
  /\ sessions["s1"].userDetails # Null

\* A value the user can rightly give for field f: set and not zero, and for
\* the incident date a date of a day not after the day of `now`.
ValidSetValue(f, v, now) ==
  /\ IsSet(v)
  /\ Truthy(v)
  /\ f = "incident_date" => (IsDate(v) /\ ~AfterToday(v, now))

\* The fields of the missing list for which the answer has such a value.
FilledBy(session, a, now) ==
  {f \in ListedIn(session.missingFields) : ValidSetValue(f, a.parsed[f], now)}

\* The oracle answers with a valid set value for at least one field of the
\* missing list, and the gap-fill changes no other field.
Cooperative(session, a, now) ==
  /\ a.kind = "json"
  /\ FilledBy(session, a, now) # {}
  /\ \A f \in Fields \ FilledBy(session, a, now) :
       fillMissingAI(session.claimData, session.missingFields, a)[f]
         = session.claimData[f]

\* The fields that keep the validator from passing the draft.
OpenFields(data, now) ==
  ListedIn(FalsyFields(data))
    \cup (IF RejectedForDate(data, now) THEN {"incident_date"} ELSE {})

\* C34: if in every turn of a session in awaiting_missing the oracle returns
\* a valid set value for at least one field of the missing list and changes
\* no other field, the session reaches done and persists its claim within at
\* most 8 turns: each such turn either persists the claim and ends in done,
\* or leaves fewer of the eight fields open than it found.
C34_CooperativeTurnsFinish ==
  \A s \in SessionIds :
    sessions[s].state = "awaiting_missing" =>
      \A a \in OracleAnswers :
        Cooperative(sessions[s], a, clock) =>
          LET r == handleMessage(sessions[s], OracleText(s), a, claims, clock)
          IN \/ /\ r.session.state = "done"
                /\ Len(r.claims) = Len(claims) + 1
             \/ /\ r.session.state = "awaiting_missing"
                /\ r.claims = claims
                /\ Cardinality(OpenFields(r.session.claimData, clock))
                     < Cardinality(OpenFields(sessions[s].claimData, clock))

\* v denotes a date of the calendar day of `now`.
OnToday(v, now) == IsDate(v) /\ DayOf(DateOf(v)) = DayOf(now)

\* C35: an incident date that falls on the current calendar day is never
\* rejected as a future date, whatever time of day the value carries.
C35_TodayNotRejected ==
  \A s \in SessionIds :
    Asking(s) =>
      \A a \in OracleAnswers :
        LET draft == DraftOf(s, a)
        IN (Truthy(draft["incident_date"]) /\ OnToday(draft["incident_date"], clock)) =>
             /\ ~validateClaimJS(draft, clock).errorMessage
             /\ Outcome(s, <<OracleText(s), a>>).reply.kind # "future_date"

\* C36: a policy whose validity end date is the current calendar day is
\* treated as active at any time of that day: its number moves the session
\* to confirm_new_claim, not to done_no_claim.
C36_LastDayStillActive ==
  \A s \in SessionIds :
    sessions[s].state = "awaiting_policy_number" =>
      \A in \in Inputs(s) :
        (/\ IsPolicyKey(in[1])
         /\ OnToday(loadPolicies[toUpperCase(trim(in[1]))].validTill, clock)) =>
           /\ Outcome(s, in).session.state = "confirm_new_claim"
           /\ Outcome(s, in).reply.kind # "policy_expired"

\* The shortcut phrase of the intent router.
FileNewClaim == <<"F","i","l","e"," ","a"," ","n","e","w"," ","c","l","a","i","m">>

\* The session is in a terminal state and has a verified policy.
TerminalWithPolicy(session) ==
  /\ session.state = "done"
  /\ session.policyNumber # Null
  /\ session.userDetails # Null

\* C32: in the intent router the "file a new claim" shortcut takes effect
\* only in a terminal state with a verified policy; received in any other
\* state it does not move the session to awaiting_claim_details.
C32_ShortcutOnlyFromTerminal ==
  \A s \in SessionIds :
    (/\ ~TerminalWithPolicy(sessions[s])
     /\ sessions[s].state # "awaiting_claim_details") =>
       RouterHandleMessage(sessions[s], FileNewClaim, NoCall,
                           CHOOSE n \in NormAnswers : TRUE, claims, clock)
         .session.state # "awaiting_claim_details"

\* C33: in the intent router a turn in awaiting_missing never changes a
\* claimData field that is not null to null, whatever the oracles return.
C33_MissingTurnKeepsValues ==
  \A s \in SessionIds :
    sessions[s].state = "awaiting_missing" =>
      \A answer \in RouterAnswers, norm \in NormAnswers, f \in Fields :
        NotNullish(sessions[s].claimData[f]) =>
          NotNullish(RouterHandleMessage(sessions[s], <<"x">>, answer, norm,
                                         claims, clock).session.claimData[f])

\* The amounts a draft may carry into the validator: text that is no
\* number, a numeral, a number, and zero as a numeral and as a number.
AmountValues ==
  { Str(<<"l","o","t","s">>), Str(<<"1","2">>), Num(500), Str(<<"0">>), Num(0) }

\* The draft of session s with claim_amount a.
WithAmount(s, a) == [sessions[s].claimData EXCEPT !["claim_amount"] = a]

C38_OneSessionPerUI ==
  \A i \in Handled, j \in Handled :
    ui.requests[i].returnedId = ui.requests[j].returnedId

=============================================================================
